---- MODULE Spec2Model ----
(***************************************************************************)
(* Model of .github/scripts/validate_plugins.py: the plugin validator.     *)
(* The filesystem the script reads is the input, fixed in Init; main() is  *)
(* the state machine start -> discover -> loop -> registry -> summary ->   *)
(* done, with the two early returns and the states an escaping exception   *)
(* leaves behind.                                                          *)
(***************************************************************************)
EXTENDS Integers, Sequences, FiniteSets, TLC

VARIABLES fs, pc, plugin_dirs, idx, report, plugin_configs, out, summary, ret, exc

vars == <<fs, pc, plugin_dirs, idx, report, plugin_configs, out, summary, ret, exc>>

(***************************************************************************)
(* Bounds of the explored inputs.                                          *)
(***************************************************************************)
MaxPlugins == 2
MaxEntries == 2

(***************************************************************************)
(* Program constants (lines 15-20).                                        *)
(***************************************************************************)
PLUGINS_DIR == "plugins"
MARKETPLACE_FILE == ".claude-plugin/marketplace.json"
REQUIRED_PLUGIN_FIELDS == <<"name", "version", "description">>
REQUIRED_MARKETPLACE_FIELDS == <<"name", "description", "plugins">>
REQUIRED_MARKETPLACE_PLUGIN_FIELDS == <<"name", "version", "description", "source">>

Range(s) == {s[i] : i \in DOMAIN s}

(***************************************************************************)
(* Python values.  A parsed JSON document is abstracted to its type        *)
(* (kind), the required-key names k for which `k in value` is true (has),  *)
(* the value under "version" and the value under "plugins".  None is the   *)
(* absent result of load_json.                                             *)
(***************************************************************************)
NoPlugins == [kind |-> "absent", items |-> <<>>]
None == [kind |-> "None", has |-> {}, version |-> "None", plugins |-> NoPlugins]
Json(k, h, v, p) == [kind |-> k, has |-> h, version |-> v, plugins |-> p]
JsonNull == Json("null", {}, "None", NoPlugins)
JsonNum == Json("num", {}, "None", NoPlugins)

\* A file on disk: missing, a directory at that path, bytes that are not
\* UTF-8, text that is not JSON, or a JSON document.
File(st, val) == [st |-> st, val |-> val]
Missing == File("missing", None)
IsDir == File("isdir", None)
Undecodable == File("undecodable", None)
Malformed == File("malformed", None)
Ok(v) == File("ok", v)

(***************************************************************************)
(* Exceptions: the result of a call is a record with the field exc, "none" *)
(* when the call returns normally.                                         *)
(***************************************************************************)
NoExc == [type |-> "none", fn |-> "none"]
Raise(t, f) == [type |-> t, fn |-> f]

\* load_json (lines 84-89): JSONDecodeError and FileNotFoundError become
\* None, every other exception of read_text escapes; JSON null parses to None.
load_json(file) ==
    CASE file.st = "missing" -> [exc |-> NoExc, val |-> None]
      [] file.st = "malformed" -> [exc |-> NoExc, val |-> None]
      [] file.st = "isdir" -> [exc |-> Raise("IsADirectoryError", "load_json"), val |-> None]
      [] file.st = "undecodable" -> [exc |-> Raise("UnicodeDecodeError", "load_json"), val |-> None]
      [] file.st = "ok" -> [exc |-> NoExc,
                            val |-> IF file.val.kind = "null" THEN None ELSE file.val]

\* Path.exists(): true for anything at the path, a directory included.
exists(file) == file.st # "missing"

\* `f in data` is defined for dict, list and str; it raises TypeError for a
\* number or a boolean.
Iterable(data) == data.kind \in {"dict", "list", "str"}
\* data.get exists on dict only.
HasGet(data) == data.kind = "dict"

\* [f for f in fields if f not in data]
MissingOf(fields, data) == SelectSeq(fields, LAMBDA f : f \notin data.has)

\* repr of a list of str, as the f-strings print it: ['name', 'version']
RECURSIVE ReprItems(_)
ReprItems(s) ==
    IF Len(s) = 0 THEN ""
    ELSE IF Len(s) = 1 THEN "'" \o s[1] \o "'"
    ELSE "'" \o s[1] \o "', " \o ReprItems(Tail(s))
Repr(s) == "[" \o ReprItems(s) \o "]"

(***************************************************************************)
(* ValidationResult and ValidationReport (lines 23-81).                    *)
(***************************************************************************)
ValidationResult(plugin, check, passed, message) ==
    [plugin |-> plugin, check |-> check, passed |-> passed, message |-> message]

add(rep, plugin, check, passed, message) ==
    Append(rep, ValidationResult(plugin, check, passed, message))

passed(rep) == \A i \in DOMAIN rep : rep[i].passed

errors(rep) == SelectSeq(rep, LAMBDA r : ~r.passed)

startswith(s, prefix) ==
    Len(s) >= Len(prefix) /\ SubSeq(s, 1, Len(prefix)) = prefix

warnings(rep) == SelectSeq(rep, LAMBDA r : r.passed /\ startswith(r.message, "WARN"))

NoSummary == [printed |-> FALSE, plugins |-> 0, errors |-> <<>>, warnings |-> <<>>,
              verdict |-> ""]

print_summary(rep) ==
    LET plugins == {rep[i].plugin : i \in {j \in DOMAIN rep : rep[j].plugin # "marketplace"}}
    IN [printed |-> TRUE,
        plugins |-> Cardinality(plugins),
        errors |-> errors(rep),
        warnings |-> warnings(rep),
        verdict |-> IF passed(rep) THEN "All validations passed!"
                    ELSE "Validation FAILED"]

(***************************************************************************)
(* Plugin Checker (lines 92-163, 223-232).  A checker takes the plugin's   *)
(* directory name, the directory's content and the report, and returns the *)
(* report it leaves behind, with the exception that escaped, if any.       *)
(***************************************************************************)
validate_plugin_json(plugin_name, dir, rep) ==
    IF ~exists(dir.manifest)
    THEN [report |-> add(rep, plugin_name, "plugin.json", FALSE, "File not found"),
          config |-> None, exc |-> NoExc]
    ELSE LET loaded == load_json(dir.manifest)
             data == loaded.val
             missing == MissingOf(REQUIRED_PLUGIN_FIELDS, data)
         IN IF loaded.exc # NoExc
            THEN [report |-> rep, config |-> None, exc |-> loaded.exc]
            ELSE IF data = None
            THEN [report |-> add(rep, plugin_name, "plugin.json", FALSE, "Invalid JSON syntax"),
                  config |-> None, exc |-> NoExc]
            ELSE IF ~Iterable(data)
            THEN [report |-> rep, config |-> None,
                  exc |-> Raise("TypeError", "validate_plugin_json")]
            ELSE IF missing # <<>>
            THEN [report |-> add(rep, plugin_name, "plugin.json", FALSE,
                                 "Missing required fields: " \o Repr(missing)),
                  config |-> None, exc |-> NoExc]
            ELSE [report |-> add(rep, plugin_name, "plugin.json", TRUE, ""),
                  config |-> data, exc |-> NoExc]

validate_readme(plugin_name, dir, rep) ==
    IF dir.readme
    THEN add(rep, plugin_name, "README.md", TRUE, "")
    ELSE add(rep, plugin_name, "README.md", FALSE, "File not found")

\* validate_skill with a missing skills directory taken for an error
validate_skill_strict(plugin_name, dir, rep) ==
    IF dir.skills = "found"
    THEN add(rep, plugin_name, "SKILL.md", TRUE, "")
    ELSE add(rep, plugin_name, "SKILL.md", FALSE, "WARNING: No skills directory")

validate_skill(plugin_name, dir, rep) ==
    IF dir.skills = "absent"
    THEN add(rep, plugin_name, "SKILL.md", TRUE, "WARNING: No skills directory")
    ELSE IF dir.skills = "found"
    THEN add(rep, plugin_name, "SKILL.md", TRUE, "")
    ELSE add(rep, plugin_name, "SKILL.md", TRUE, "WARNING: No SKILL.md found")

validate_commands(plugin_name, dir, rep) ==
    IF dir.commands = "absent"
    THEN add(rep, plugin_name, "commands", TRUE, "WARNING: No commands directory")
    ELSE IF dir.commands = "found"
    THEN add(rep, plugin_name, "commands", TRUE, "")
    ELSE add(rep, plugin_name, "commands", TRUE, "WARNING: No command files found")

validate_plugin(plugin_name, dir, rep) ==
    LET m == validate_plugin_json(plugin_name, dir, rep)
    IN IF m.exc # NoExc
       THEN m
       ELSE [report |-> validate_commands(plugin_name, dir,
                            validate_skill(plugin_name, dir,
                                validate_readme(plugin_name, dir, m.report))),
             config |-> m.config, exc |-> NoExc]

(***************************************************************************)
(* Registry Checker (lines 166-220).                                       *)
(***************************************************************************)
\* One iteration of the loop over data["plugins"] (lines 194-220).
CheckEntry(mp_plugin, rep, configs) ==
    IF mp_plugin.kind # "dict"
    THEN [report |-> rep, exc |-> Raise("AttributeError", "validate_marketplace")]
    ELSE LET mp_name == IF "name" \in mp_plugin.has THEN mp_plugin.name ELSE "unknown"
             missing_fields == MissingOf(REQUIRED_MARKETPLACE_PLUGIN_FIELDS, mp_plugin)
         IN IF missing_fields # <<>>
            THEN [report |-> add(rep, "marketplace", "plugin:" \o mp_name, FALSE,
                                 "Missing fields: " \o Repr(missing_fields)),
                  exc |-> NoExc]
            ELSE IF ~mp_plugin.hashable
            THEN [report |-> rep, exc |-> Raise("TypeError", "validate_marketplace")]
            ELSE IF mp_name \notin DOMAIN configs
            THEN [report |-> rep, exc |-> NoExc]
            ELSE IF ~HasGet(configs[mp_name])
            THEN [report |-> rep, exc |-> Raise("AttributeError", "validate_marketplace")]
            ELSE LET plugin_version == configs[mp_name].version
                     mp_version == mp_plugin.version
                 IN IF plugin_version # mp_version
                    THEN [report |-> add(rep, "marketplace", "version:" \o mp_name, FALSE,
                                         "Version mismatch: plugin.json=" \o plugin_version
                                         \o ", marketplace.json=" \o mp_version),
                          exc |-> NoExc]
                    ELSE [report |-> add(rep, "marketplace", "version:" \o mp_name, TRUE, ""),
                          exc |-> NoExc]

RECURSIVE CheckEntries(_, _, _)
CheckEntries(items, rep, configs) ==
    IF items = <<>>
    THEN [report |-> rep, exc |-> NoExc]
    ELSE LET r == CheckEntry(Head(items), rep, configs)
         IN IF r.exc # NoExc THEN r ELSE CheckEntries(Tail(items), r.report, configs)

validate_marketplace(rep, configs, file) ==
    IF ~exists(file)
    THEN [report |-> add(rep, "marketplace", "marketplace.json", TRUE,
                         "WARNING: File not found"),
          exc |-> NoExc]
    ELSE LET loaded == load_json(file)
             data == loaded.val
             missing == MissingOf(REQUIRED_MARKETPLACE_FIELDS, data)
         IN IF loaded.exc # NoExc
            THEN [report |-> rep, exc |-> loaded.exc]
            ELSE IF data = None
            THEN [report |-> add(rep, "marketplace", "marketplace.json", FALSE,
                                 "Invalid JSON syntax"),
                  exc |-> NoExc]
            ELSE IF ~Iterable(data)
            THEN [report |-> rep, exc |-> Raise("TypeError", "validate_marketplace")]
            ELSE IF missing # <<>>
            THEN [report |-> add(rep, "marketplace", "marketplace.json", FALSE,
                                 "Missing required fields: " \o Repr(missing)),
                  exc |-> NoExc]
            ELSE LET rep1 == add(rep, "marketplace", "marketplace.json", TRUE, "")
                 IN IF ~HasGet(data)
                    THEN [report |-> rep1,
                          exc |-> Raise("AttributeError", "validate_marketplace")]
                    ELSE IF data.plugins.kind # "list"
                    THEN [report |-> rep1,
                          exc |-> Raise("TypeError", "validate_marketplace")]
                    ELSE CheckEntries(data.plugins.items, rep1, configs)

(***************************************************************************)
(* Driver helpers (lines 244-245): sorted() compares the paths character   *)
(* by character; the list comprehension keeps the directories.             *)
(***************************************************************************)
Alphabet == "abcdefghijklmnopqrstuvwxyz"
Ord(c) == CHOOSE i \in 1..Len(Alphabet) : SubSeq(Alphabet, i, i) = c

RECURSIVE LexLess(_, _)
LexLess(s, t) ==
    IF Len(t) = 0 THEN FALSE
    ELSE IF Len(s) = 0 THEN TRUE
    ELSE LET a == Ord(SubSeq(s, 1, 1))
             b == Ord(SubSeq(t, 1, 1))
         IN IF a < b THEN TRUE
            ELSE IF a > b THEN FALSE
            ELSE LexLess(SubSeq(s, 2, Len(s)), SubSeq(t, 2, Len(t)))

RECURSIVE sorted(_)
sorted(S) ==
    IF S = {} THEN <<>>
    ELSE LET least == CHOOSE x \in S : \A y \in S \ {x} : LexLess(x, y)
         IN <<least>> \o sorted(S \ {least})

iterdir(f) == {n \in DOMAIN f.entries : f.entries[n] # "none"}
\* the listing without the is_dir filter
is_dir_unfiltered(f, n) == f.entries[n] # "none"
is_dir(f, n) == f.entries[n] = "dir"

Put(configs, k, v) == [x \in DOMAIN configs \cup {k} |-> IF x = k THEN v ELSE configs[x]]
NoConfigs == [x \in {} |-> None]
NoReturn == 0 - 1

(***************************************************************************)
(* Inputs: the filesystem a run reads.                                     *)
(***************************************************************************)
DirNames == {"alpha", "alphabet", "beta", "marketplace"}
Versions == {"1.0", "2.0"}
Tri == {"absent", "empty", "found"}
PluginKeys == Range(REQUIRED_PLUGIN_FIELDS)
MarketKeys == Range(REQUIRED_MARKETPLACE_FIELDS)
EntryKeys == Range(REQUIRED_MARKETPLACE_PLUGIN_FIELDS)

Dir(m, r, s, c) == [manifest |-> m, readme |-> r, skills |-> s, commands |-> c]
DefaultDir == Dir(Missing, FALSE, "absent", "absent")

Manifest(k, h, v) == Ok(Json(k, h, v, NoPlugins))
ManifestCore ==
    {Missing, Manifest("num", {}, "None"), Manifest("list", PluginKeys, "None"),
     Manifest("dict", PluginKeys, "1.0"), Manifest("dict", PluginKeys, "2.0")}
ManifestFiles ==
    ManifestCore \cup
    {IsDir, Undecodable, Malformed, Ok(JsonNull),
     Manifest("dict", {"name", "description"}, "None"),
     Manifest("dict", {"version"}, "1.0"),
     Manifest("dict", {}, "None")}

FullDirs == {Dir(m, r, s, c) : m \in ManifestFiles, r \in BOOLEAN, s \in Tri, c \in Tri}
ProfileDirs == {Dir(m, TRUE, "found", "found") : m \in ManifestFiles}
               \cup {Dir(m, FALSE, "absent", "empty") : m \in ManifestFiles}
CoreDirs == {Dir(m, TRUE, "found", "found") : m \in ManifestCore}

Entry(k, h, n, hashable, v) ==
    [kind |-> k, has |-> h, name |-> n, hashable |-> hashable, version |-> v]
Entries ==
    {Entry("dict", EntryKeys, "alpha", TRUE, v) : v \in Versions}
    \cup {Entry("dict", EntryKeys, "marketplace", TRUE, "1.0"),
          Entry("dict", EntryKeys, "ghost", TRUE, "1.0"),
          Entry("dict", EntryKeys \ {"source"}, "alpha", TRUE, "1.0"),
          Entry("dict", EntryKeys \ {"name"}, "None", TRUE, "1.0"),
          Entry("dict", EntryKeys, "['x']", FALSE, "1.0"),
          Entry("str", {}, "None", TRUE, "None")}

EntryLists == UNION {[1..n -> Entries] : n \in 0..MaxEntries}

Registry(k, h, p) == Ok(Json(k, h, "None", p))
RegistrySmall ==
    {Missing, Malformed,
     Registry("dict", MarketKeys, [kind |-> "list",
                                   items |-> <<Entry("dict", EntryKeys, "alpha", TRUE, "1.0")>>])}
RegistryFiles ==
    {Missing, IsDir, Undecodable, Malformed, Ok(JsonNull),
     Registry("num", {}, NoPlugins),
     Registry("list", MarketKeys, NoPlugins),
     Registry("dict", {}, NoPlugins),
     Registry("dict", {"name", "plugins"}, [kind |-> "list", items |-> <<>>]),
     Registry("dict", MarketKeys, [kind |-> "null", items |-> <<>>])}
    \cup {Registry("dict", MarketKeys, [kind |-> "list", items |-> l]) : l \in EntryLists}

Listings ==
    {e \in [DirNames -> {"none", "dir", "file"}] :
        Cardinality({n \in DirNames : e[n] # "none"}) <= MaxPlugins}

DirsOf(e) == {n \in DirNames : e[n] = "dir"}

\* d gives the content of each directory of the listing e
Fs(root, e, d, r) ==
    [root |-> root, entries |-> e,
     dirs |-> [n \in DirNames |-> IF e[n] = "dir" THEN d[n] ELSE DefaultDir],
     registry |-> r]

NoEntries == [n \in DirNames |-> "none"]
NoDirs == [n \in {} |-> DefaultDir]

\* no usable plugins root
InputsNoRoot(f) ==
    \E root \in {"absent", "file"} : f = Fs(root, NoEntries, NoDirs, Missing)
\* one plugin, every combination of its files
InputsOnePlugin(f) ==
    \E p \in DirNames, d \in FullDirs, r \in RegistrySmall :
        f = Fs("dir", [n \in DirNames |-> IF n = p THEN "dir" ELSE "none"],
               [n \in {p} |-> d], r)
\* several entries under the root, directories and plain files
InputsListing(f) ==
    \E e \in Listings :
        \E d \in [DirsOf(e) -> ProfileDirs], r \in RegistrySmall : f = Fs("dir", e, d, r)
\* every registry file against plugins that differ in their manifest
InputsRegistry(f) ==
    \E e \in {l \in Listings : \A n \in DirNames : l[n] # "file"} :
        \E d \in [DirsOf(e) -> CoreDirs], r \in RegistryFiles : f = Fs("dir", e, d, r)

Inputs(f) == InputsNoRoot(f) \/ InputsOnePlugin(f) \/ InputsListing(f) \/ InputsRegistry(f)

(***************************************************************************)
(* main() (lines 235-262) and the interpreter's sys.exit (lines 265-266).  *)
(***************************************************************************)
Init ==
    /\ Inputs(fs)
    /\ pc = "start"
    /\ plugin_dirs = <<>>
    /\ idx = 0
    /\ report = <<>>
    /\ plugin_configs = NoConfigs
    /\ out = <<>>
    /\ summary = NoSummary
    /\ ret = NoReturn
    /\ exc = NoExc

\* lines 240-242
CheckRoot ==
    /\ pc = "start"
    /\ IF fs.root = "absent"
       THEN /\ out' = Append(out, "ERROR: Plugins directory not found: " \o PLUGINS_DIR)
            /\ ret' = 1
            /\ pc' = "no-plugins-root"
       ELSE /\ pc' = "discover-plugins"
            /\ UNCHANGED <<out, ret>>
    /\ UNCHANGED <<fs, plugin_dirs, idx, report, plugin_configs, summary, exc>>

\* lines 244-249
Discover ==
    /\ pc = "discover-plugins"
    /\ IF fs.root = "file"
       THEN /\ exc' = Raise("NotADirectoryError", "main")
            /\ pc' = "raised"
            /\ UNCHANGED <<plugin_dirs, out, ret>>
       ELSE LET dirs == SelectSeq(sorted(iterdir(fs)), LAMBDA n : is_dir(fs, n))
            IN /\ plugin_dirs' = dirs
               /\ IF dirs = <<>>
                  THEN /\ out' = Append(out, "ERROR: No plugins found")
                       /\ ret' = 1
                       /\ pc' = "no-plugins-found"
                  ELSE /\ pc' = "per-plugin-loop"
                       /\ UNCHANGED <<out, ret>>
               /\ UNCHANGED exc
    /\ UNCHANGED <<fs, idx, report, plugin_configs, summary>>

\* lines 252-255: one iteration of the loop, validate_plugin included
LoopStep ==
    /\ pc = "per-plugin-loop"
    /\ idx < Len(plugin_dirs)
    /\ LET name == plugin_dirs[idx + 1]
           r == validate_plugin(name, fs.dirs[name], report)
       IN /\ out' = Append(out, "Validating " \o name \o "...")
          /\ report' = r.report
          /\ IF r.exc # NoExc
             THEN /\ exc' = r.exc
                  /\ pc' = "raised"
                  /\ UNCHANGED <<idx, plugin_configs>>
             ELSE /\ idx' = idx + 1
                  /\ plugin_configs' = IF r.config # None /\ r.config.has # {}
                                       THEN Put(plugin_configs, name, r.config)
                                       ELSE plugin_configs
                  /\ pc' = IF idx + 1 = Len(plugin_dirs) THEN "registry-check"
                           ELSE "per-plugin-loop"
                  /\ UNCHANGED exc
    /\ UNCHANGED <<fs, plugin_dirs, summary, ret>>

\* lines 258-259
RegistryCheck ==
    /\ pc = "registry-check"
    /\ LET r == validate_marketplace(report, plugin_configs, fs.registry)
       IN /\ out' = Append(out, "Validating marketplace.json...")
          /\ report' = r.report
          /\ exc' = r.exc
          /\ pc' = IF r.exc # NoExc THEN "raised" ELSE "summarize"
    /\ UNCHANGED <<fs, plugin_dirs, idx, plugin_configs, summary, ret>>

\* line 261
Summarize ==
    /\ pc = "summarize"
    /\ summary' = print_summary(report)
    /\ pc' = "return"
    /\ UNCHANGED <<fs, plugin_dirs, idx, report, plugin_configs, out, ret, exc>>

\* line 262
Return ==
    /\ pc = "return"
    /\ ret' = IF passed(report) THEN 0 ELSE 1
    /\ pc' = "done"
    /\ UNCHANGED <<fs, plugin_dirs, idx, report, plugin_configs, out, summary, exc>>

Next == CheckRoot \/ Discover \/ LoopStep \/ RegistryCheck \/ Summarize \/ Return

Spec == Init /\ [][Next]_vars

TypeOK ==
    /\ pc \in {"start", "discover-plugins", "per-plugin-loop", "registry-check", "summarize",
               "return", "done", "no-plugins-root", "no-plugins-found", "raised"}
    /\ ret \in {NoReturn, 0, 1}
    /\ idx \in 0..Len(plugin_dirs)

(***************************************************************************)
(* Vocabulary of the properties.                                           *)
(***************************************************************************)
Terminated == pc \in {"done", "no-plugins-root", "no-plugins-found", "raised"}
HasSubdir == fs.root = "dir" /\ \E n \in DirNames : fs.entries[n] = "dir"
ProgressLine(n) == "Validating " \o n \o "..."
\* number of directories validate_plugin was invoked on
Visits == Cardinality({i \in DOMAIN out : \E n \in DirNames : out[i] = ProgressLine(n)})
RegistryRuns == Cardinality({i \in DOMAIN out : out[i] = "Validating marketplace.json..."})
ManifestPassed(n) ==
    \E i \in DOMAIN report : report[i] = ValidationResult(n, "plugin.json", TRUE, "")
\* the registry file parses to an object with the three required keys
RegistryComplete ==
    /\ fs.registry.st = "ok"
    /\ fs.registry.val.kind = "dict"
    /\ MarketKeys \subseteq fs.registry.val.has
RegistryItems ==
    IF RegistryComplete /\ fs.registry.val.plugins.kind = "list"
    THEN fs.registry.val.plugins.items ELSE <<>>
CompleteEntry(e) == e.kind = "dict" /\ EntryKeys \subseteq e.has
TagOf(e) == IF e.kind = "dict" /\ "name" \in e.has THEN e.name ELSE "unknown"
Tags == DirNames \cup {TagOf(e) : e \in Entries}

\* C1: whatever the filesystem holds, main() returns, and what it returns is
\* 0 exactly when the summary was printed and no outcome failed, 1 otherwise.
C1_ExitStatus ==
    Terminated =>
        /\ ret \in {0, 1}
        /\ ret = 0 <=> (summary.printed /\ \A i \in DOMAIN report : report[i].passed)

\* C2: with at least one subdirectory under the plugins root no exception
\* aborts the run: every directory is validated once in lexicographic order,
\* then the registry once, then the summary, then the return.
C2_RunCompletes ==
    HasSubdir =>
        /\ pc # "raised"
        /\ \A i \in DOMAIN plugin_dirs : \A j \in DOMAIN plugin_dirs :
               i < j => LexLess(plugin_dirs[i], plugin_dirs[j])
        /\ pc \in {"summarize", "return", "done"} =>
               /\ out = [i \in 1..Len(plugin_dirs) + 1 |->
                            IF i <= Len(plugin_dirs) THEN ProgressLine(plugin_dirs[i])
                            ELSE "Validating marketplace.json..."]
               /\ {n \in DirNames : fs.entries[n] = "dir"} = Range(plugin_dirs)
        /\ pc = "done" => summary.printed

\* C3: no exception escapes load_json; a file it cannot read or parse gives
\* the absent result.
C3_LoadJsonNeverRaises == exc.fn # "load_json"

\* C4: every directory validate_plugin was invoked on has its four outcomes
\* plugin.json, README.md, SKILL.md, commands, in that order, the last two
\* passed; a missing, unparsable or incomplete manifest gives a failed
\* plugin.json outcome, and an incomplete one names the absent keys in the
\* declared order.
C4_FourOutcomes ==
    \A i \in 1..Visits :
        LET n == plugin_dirs[i]
            m == fs.dirs[n].manifest
            k == 4 * (i - 1)
        IN /\ Len(report) >= k + 4
           /\ <<report[k + 1].plugin, report[k + 2].plugin,
                report[k + 3].plugin, report[k + 4].plugin>> = <<n, n, n, n>>
           /\ <<report[k + 1].check, report[k + 2].check,
                report[k + 3].check, report[k + 4].check>>
                = <<"plugin.json", "README.md", "SKILL.md", "commands">>
           /\ report[k + 3].passed /\ report[k + 4].passed
           /\ (m.st # "ok" \/ ~(PluginKeys \subseteq m.val.has)) => ~report[k + 1].passed
           /\ (m.st = "ok" /\ m.val.kind = "dict" /\ ~(PluginKeys \subseteq m.val.has)) =>
                  report[k + 1].message =
                      "Missing required fields: "
                      \o Repr(SelectSeq(REQUIRED_PLUGIN_FIELDS, LAMBDA f : f \notin m.val.has))

\* C5: with a complete registry file, every complete entry named after a
\* directory whose manifest check passed has its own version:<name> outcome,
\* passed exactly when the two versions are equal, and a mismatch states both
\* versions and makes the run return 1.
C5_VersionOutcome ==
    (Terminated /\ RegistryComplete) =>
        \A n \in DirNames :
            LET matching == {i \in DOMAIN RegistryItems :
                                /\ CompleteEntry(RegistryItems[i])
                                /\ RegistryItems[i].hashable
                                /\ RegistryItems[i].name = n}
            IN ManifestPassed(n) =>
                 /\ Cardinality({k \in DOMAIN report : report[k].check = "version:" \o n})
                        = Cardinality(matching)
                 /\ \A i \in matching :
                        LET mine == fs.dirs[n].manifest.val.version
                            theirs == RegistryItems[i].version
                        IN IF mine = theirs
                           THEN ValidationResult("marketplace", "version:" \o n, TRUE, "")
                                    \in Range(report)
                           ELSE /\ ValidationResult("marketplace", "version:" \o n, FALSE,
                                        "Version mismatch: plugin.json=" \o mine
                                        \o ", marketplace.json=" \o theirs) \in Range(report)
                                /\ ret = 1

\* Scenario C of the spec: one plugin directory with a complete manifest and
\* a README, no skills and no commands directory, no registry file.
ScenarioC ==
    /\ fs.root = "dir"
    /\ \E p \in DirNames :
          /\ \A n \in DirNames : fs.entries[n] = "dir" <=> n = p
          /\ fs.dirs[p].manifest.st = "ok"
          /\ fs.dirs[p].manifest.val.kind = "dict"
          /\ PluginKeys \subseteq fs.dirs[p].manifest.val.has
          /\ fs.dirs[p].readme
          /\ fs.dirs[p].skills = "absent"
          /\ fs.dirs[p].commands = "absent"
    /\ fs.registry.st = "missing"

\* C6, as the spec states it: the run of scenario C returns 0 and its summary
\* lists no error and exactly two warnings, for the skills and the commands
\* directory.
C6_ScenarioC_TwoWarnings ==
    (ScenarioC /\ pc = "done") =>
        /\ ret = 0
        /\ summary.errors = <<>>
        /\ Len(summary.warnings) = 2

\* C6, amended: the run of scenario C returns 0 and its summary lists no
\* error and exactly three warnings: no skills directory, no commands
\* directory, and the registry file not found.
C6_ScenarioC_ThreeWarnings ==
    (ScenarioC /\ pc = "done") =>
        /\ ret = 0
        /\ summary.errors = <<>>
        /\ \E p \in DirNames :
              summary.warnings =
                  <<ValidationResult(p, "SKILL.md", TRUE, "WARNING: No skills directory"),
                    ValidationResult(p, "commands", TRUE, "WARNING: No commands directory"),
                    ValidationResult("marketplace", "marketplace.json", TRUE,
                                     "WARNING: File not found")>>

C6_Witness == ScenarioC /\ pc = "done" /\ Len(summary.warnings) = 3

\* the plugins root is absent, or it is a directory without subdirectories
NoPluginDirs ==
    \/ fs.root = "absent"
    \/ fs.root = "dir" /\ \A n \in DirNames : fs.entries[n] # "dir"

C8_VersionOnlyForMatch ==
    /\ \A i \in DOMAIN report :
          startswith(report[i].check, "version:") =>
              \E n \in DirNames :
                  /\ report[i].check = "version:" \o n
                  /\ report[i].plugin = "marketplace"
                  /\ ManifestPassed(n)
                  /\ \E j \in DOMAIN RegistryItems :
                        /\ CompleteEntry(RegistryItems[j])
                        /\ RegistryItems[j].name = n
    /\ (Terminated /\ RegistryRuns = 1) =>
          \A t \in Tags :
              LET incomplete == {j \in DOMAIN RegistryItems :
                                    /\ ~CompleteEntry(RegistryItems[j])
                                    /\ TagOf(RegistryItems[j]) = t}
              IN Cardinality({k \in DOMAIN report :
                                 /\ report[k].plugin = "marketplace"
                                 /\ ~report[k].passed
                                 /\ report[k].check = "plugin:" \o t})
                 = Cardinality(incomplete)

\* outcomes of the registry file itself, and of its entries
RegistryOutcomes ==
    SelectSeq(report, LAMBDA r : r.plugin = "marketplace" /\ r.check = "marketplace.json")
EntryOutcomes ==
    SelectSeq(report, LAMBDA r : startswith(r.check, "plugin:")
                                 \/ startswith(r.check, "version:"))

\* C9: the registry check stops at the first stage that fails, with exactly
\* one outcome for the registry file and none for an entry: a warning for an
\* absent file, the error "Invalid JSON syntax" for one that does not parse,
\* an error naming the missing keys for one that lacks a required key; a
\* complete file gets a plain pass before its entries are examined.
C9_RegistryStages ==
    (Terminated /\ RegistryRuns = 1) =>
        LET f == fs.registry
        IN /\ f.st = "missing" =>
                 /\ RegistryOutcomes = <<ValidationResult("marketplace", "marketplace.json",
                                            TRUE, "WARNING: File not found")>>
                 /\ EntryOutcomes = <<>>
           /\ f.st \in {"malformed", "undecodable"} =>
                 /\ RegistryOutcomes = <<ValidationResult("marketplace", "marketplace.json",
                                            FALSE, "Invalid JSON syntax")>>
                 /\ EntryOutcomes = <<>>
           /\ (f.st = "ok" /\ ~(MarketKeys \subseteq f.val.has)) =>
                 /\ Len(RegistryOutcomes) = 1
                 /\ ~RegistryOutcomes[1].passed
                 /\ f.val.kind = "dict" =>
                        RegistryOutcomes[1].message =
                            "Missing required fields: "
                            \o Repr(SelectSeq(REQUIRED_MARKETPLACE_FIELDS,
                                              LAMBDA k : k \notin f.val.has))
                 /\ EntryOutcomes = <<>>
           /\ (f.st = "ok" /\ MarketKeys \subseteq f.val.has) =>
                 RegistryOutcomes = <<ValidationResult("marketplace", "marketplace.json",
                                         TRUE, "")>>

\* C10: the number printed as "Plugins validated" is the number of plugin
\* directories the loop visited.
C10_PluginsValidated == summary.printed => summary.plugins = Len(plugin_dirs)

====
